---- MODULE Spec2Model ----
(***************************************************************************)
(* Model of the merge editor widget (MergeEditorWidget) and of the color   *)
(* theme data object (ColorThemeData) of                                    *)
(* src/vs/platform/userInteraction/common/userInteraction.ts.               *)
(***************************************************************************)
EXTENDS Integers, Sequences, FiniteSets, TLC

VARIABLES
    layoutMode,     \* MergeEditorWidget._layoutMode: the current IMergeEditorLayout object
    baseView,       \* MergeEditorWidget._baseView: TRUE when a BaseCodeEditorView exists
    grid,           \* MergeEditorWidget._grid: the rows of the grid descriptor last set
    last,           \* record of the most recent widget call (what it did and fired)
    prev,           \* record of the widget call before that
    viewModel,      \* MergeEditorWidget._viewModel: 0 (undefined) or the index in viewModels
    viewModels,     \* the MergeEditorViewModel instances created so far
    showNonConflictingChanges,  \* MergeEditorWidget._showNonConflictingChanges
    editorZones,    \* the view zones present in each editor
    registrations,  \* what the calls of setupViewZones set up
    sessionDisposables,  \* MergeEditor._sessionDisposables: the disposables added, in order
    inputModel,     \* MergeEditor._inputModel: "undefined" or the input whose model it is
    ctxUri,         \* MergeEditor._ctxResultUri and _ctxBaseUri
    editorCalls,    \* the setInput and clearInput calls made on the MergeEditor
    themes,         \* the ColorThemeData instances created so far; an instance is its index
    promises,       \* the promises returned by ensureLoaded and reload
    call            \* record of the most recent call on a ColorThemeData (with its result)

zoneVars == <<viewModel, viewModels, showNonConflictingChanges, editorZones, registrations>>

editorVars == <<sessionDisposables, inputModel, ctxUri, editorCalls>>

widgetVars ==
    <<layoutMode, baseView, grid, last, prev,
      viewModel, viewModels, showNonConflictingChanges, editorZones, registrations,
      sessionDisposables, inputModel, ctxUri, editorCalls>>

themeVars == <<themes, promises, call>>

vars ==
    <<layoutMode, baseView, grid, last, prev,
      viewModel, viewModels, showNonConflictingChanges, editorZones, registrations,
      sessionDisposables, inputModel, ctxUri, editorCalls,
      themes, promises, call>>

(***************************************************************************)
(* IMergeEditorLayout.  A layout is a JavaScript object: besides the three *)
(* properties it has a property order (keys), which JSON.stringify shows.  *)
(***************************************************************************)
MergeEditorLayoutKind == {"mixed", "columns"}

\* The order in which the interface and the object literals of the file list the keys.
DeclaredOrder == <<"kind", "showBase", "showBaseAtTop">>

\* The property orders of the layout objects callers pass: the declared order and
\* one other order (an object literal or a stored JSON text that lists showBase first).
KeyOrders == { DeclaredOrder, <<"showBase", "kind", "showBaseAtTop">> }

IMergeEditorLayout ==
    [kind : MergeEditorLayoutKind, showBase : BOOLEAN, showBaseAtTop : BOOLEAN, keys : KeyOrders]

\* The three properties of a layout, without the property order.
LayoutValue(l) == <<l.kind, l.showBase, l.showBaseAtTop>>

\* JSON text of one property value.
JsonValue(l, k) ==
    IF k = "kind" THEN l.kind
    ELSE IF k = "showBase" THEN (IF l.showBase THEN "true" ELSE "false")
    ELSE (IF l.showBaseAtTop THEN "true" ELSE "false")

\* JSON.stringify(layout): the properties in the object's own order.
JSONstringify(l) == [i \in 1..3 |-> <<l.keys[i], JsonValue(l, l.keys[i])>>]

\* The comparison of setLayout, by value only (a comparison that ignores the order).
sameLayoutByValue(a, b) == LayoutValue(a) = LayoutValue(b)

\* The comparison of setLayout: JSON.stringify(currentLayout) === JSON.stringify(newLayout).
sameLayout(a, b) == JSONstringify(a) = JSONstringify(b)

(***************************************************************************)
(* _applyLayout: base view creation/removal and the grid descriptor.       *)
(***************************************************************************)
applyLayoutBaseView(layout, bv) ==
    IF layout.showBase /\ ~bv THEN TRUE
    ELSE IF ~layout.showBase /\ bv THEN FALSE
    ELSE bv

isDefined(s) == SelectSeq(s, LAMBDA x : x # "undefined")

\* A grid descriptor whose 'columns' branch shows the base row only when
\* showBaseAtTop, as the 'mixed' branch does.
gridDescriptor_ColumnsBaseAtTopOnly(layout) ==
    IF layout.kind = "mixed" THEN
        (IF layout.showBaseAtTop /\ layout.showBase
            THEN << [size |-> 38, views |-> <<"base">>] >> ELSE << >>)
        \o << [size |-> 38,
               views |-> isDefined(<< "input1",
                                      IF ~layout.showBaseAtTop /\ layout.showBase
                                          THEN "base" ELSE "undefined",
                                      "input2" >>)],
              [size |-> 62, views |-> <<"result">>] >>
    ELSE
        (IF layout.showBaseAtTop /\ layout.showBase
            THEN << [size |-> 40, views |-> <<"base">>] >> ELSE << >>)
        \o << [size |-> 60, views |-> <<"input1", "result", "input2">>] >>

gridDescriptor(layout) ==
    IF layout.kind = "mixed" THEN
        (IF layout.showBaseAtTop /\ layout.showBase
            THEN << [size |-> 38, views |-> <<"base">>] >> ELSE << >>)
        \o << [size |-> 38,
               views |-> isDefined(<< "input1",
                                      IF ~layout.showBaseAtTop /\ layout.showBase
                                          THEN "base" ELSE "undefined",
                                      "input2" >>)],
              [size |-> 62, views |-> <<"result">>] >>
    ELSE
        (IF layout.showBase
            THEN << [size |-> 40, views |-> <<"base">>] >> ELSE << >>)
        \o << [size |-> 60, views |-> <<"input1", "result", "input2">>] >>

\* The state the widget is in after _applyLayout(layout).
WidgetAfterApply(layout) ==
    /\ baseView' = applyLayoutBaseView(layout, baseView)
    /\ grid' = gridDescriptor(layout)
    /\ layoutMode' = layout

(***************************************************************************)
(* setupViewZones: the autorun that keeps the alignment view zones, and    *)
(* the editors' view zones.  A zone is named by the run that created it.   *)
(***************************************************************************)
Editors == {"input1", "input2", "base", "result"}

NoZones == [e \in Editors |-> {}]

\* IViewZoneChangeAccessor.removeZone for the zones named ids, in every editor.
removeZones(zones, ids) == [e \in Editors |-> zones[e] \ ids]

\* IViewZoneChangeAccessor.addZone (v.create) for the zones of run id: in input1,
\* input2 and result, and in the base editor when there is a base view.
createZones(zones, id, bv) ==
    [e \in Editors |-> IF e = "base" /\ ~bv THEN zones[e] ELSE zones[e] \cup {id}]

\* The observables an autorun of setupViewZones read in its last run.
AllDependencies == {"viewModel", "baseView", "layoutMode", "showNonConflictingChanges"}

Dependencies(reg) == IF reg.full THEN AllDependencies ELSE {"viewModel"}

\* What setupViewZones set up: the autorun (active until disposed), the zones
\* held by viewZoneRegistrationStore, and the zones the most recent run created.
Registration(active, full, store, latest) ==
    [active |-> active, full |-> full, store |-> store, latest |-> latest]

\* The zones that editors or stores hold.
UsedZones(regs, zones) ==
    UNION { zones[e] : e \in Editors } \cup UNION { regs[i].store : i \in DOMAIN regs }

\* One run of the autorun of setupViewZones: nothing without a view model; else
\* viewZoneRegistrationStore is cleared and _setViewZones creates the zones.
runUpdate(reg, regs, zones, vm, bv) ==
    IF vm = 0
    THEN [reg |-> Registration(TRUE, FALSE, reg.store, NoZones), zones |-> zones]
    ELSE LET cleared == removeZones(zones, reg.store)
             id == CHOOSE n \in 1..(Len(regs) + 1) :
                     /\ n \notin UsedZones(regs, cleared) \ reg.store
                     /\ \A m \in 1..(n - 1) : m \in UsedZones(regs, cleared) \ reg.store
         IN  [reg |-> Registration(TRUE, TRUE, {id}, createZones(NoZones, id, bv)),
              zones |-> createZones(cleared, id, bv)]

RECURSIVE runAutoruns(_, _, _, _, _, _)
\* The end of a transaction that changed the observables named in changed: every
\* active autorun that read one of them runs again, in the order of creation.
runAutoruns(i, regs, zones, vm, bv, changed) ==
    IF i > Len(regs) THEN [registrations |-> regs, editorZones |-> zones]
    ELSE IF regs[i].active /\ (changed \cap Dependencies(regs[i])) # {}
    THEN LET run == runUpdate(regs[i], regs, zones, vm, bv)
         IN  runAutoruns(i + 1, [regs EXCEPT ![i] = run.reg], run.zones, vm, bv, changed)
    ELSE runAutoruns(i + 1, regs, zones, vm, bv, changed)

\* The zones left when _applyLayout disposed the base view with its editor.
zonesAfterLayout(layout) ==
    IF baseView /\ ~layout.showBase THEN [editorZones EXCEPT !["base"] = {}] ELSE editorZones

\* The observables _applyLayout(layout) changes.
changedByLayout(layout) ==
    {"layoutMode"} \cup
    (IF applyLayoutBaseView(layout, baseView) # baseView THEN {"baseView"} ELSE {})

NoCall == [op |-> "none"]

\* What a call of setLayout(newLayout) made under the name op leaves in the log.
CallRecord(op, newLayout, applied) ==
    [op |-> op, arg |-> newLayout, before |-> layoutMode,
     gridSet |-> applied, wrote |-> applied,
     sizeFired |-> IF applied THEN 1 ELSE 0,
     layoutFired |-> IF applied THEN <<newLayout>> ELSE << >>]

\* setLayout(newLayout), called directly or by one of the toggles.
setLayoutAs(op, newLayout) ==
    /\ UNCHANGED themeVars
    /\ IF sameLayout(layoutMode, newLayout)
          THEN UNCHANGED <<layoutMode, baseView, grid, editorZones, registrations>>
          ELSE /\ WidgetAfterApply(newLayout)
               /\ LET after == runAutoruns(1, registrations, zonesAfterLayout(newLayout),
                                           viewModel, newLayout.showBase,
                                           changedByLayout(newLayout))
                  IN  /\ registrations' = after.registrations
                      /\ editorZones' = after.editorZones
    /\ UNCHANGED <<viewModel, viewModels, showNonConflictingChanges, editorVars>>
    /\ prev' = last
    /\ last' = CallRecord(op, newLayout, ~sameLayout(layoutMode, newLayout))

setLayout(newLayout) == setLayoutAs("setLayout", newLayout)

\* A toggleBase that always shows the base: { ...layout, showBase: true }.
toggleBaseLayout_AlwaysShow(layout) == [layout EXCEPT !.showBase = TRUE]

\* { ...layout, showBase: !layout.showBase }: the spread keeps the property order.
toggleBaseLayout(layout) == [layout EXCEPT !.showBase = ~layout.showBase]

toggleBase == setLayoutAs("toggleBase", toggleBaseLayout(layoutMode))

\* A toggleShowBaseTop that negates showBase whatever the position of the base.
toggleShowBaseTopLayout_PlainToggle(layout) ==
    [layout EXCEPT !.showBaseAtTop = TRUE, !.showBase = ~layout.showBase]

toggleShowBaseTopLayout(layout) ==
    LET showBaseTop == layout.showBase /\ layout.showBaseAtTop
    IN  [layout EXCEPT !.showBaseAtTop = TRUE, !.showBase = ~showBaseTop]

toggleShowBaseTop == setLayoutAs("toggleShowBaseTop", toggleShowBaseTopLayout(layoutMode))

\* A toggleShowBaseCenter that tests the wrong position: layout.showBase && layout.showBaseAtTop.
toggleShowBaseCenterLayout_WrongTest(layout) ==
    LET showBaseCenter == layout.showBase /\ layout.showBaseAtTop
    IN  [layout EXCEPT !.showBaseAtTop = FALSE, !.showBase = ~showBaseCenter]

toggleShowBaseCenterLayout(layout) ==
    LET showBaseCenter == layout.showBase /\ ~layout.showBaseAtTop
    IN  [layout EXCEPT !.showBaseAtTop = FALSE, !.showBase = ~showBaseCenter]

toggleShowBaseCenter ==
    setLayoutAs("toggleShowBaseCenter", toggleShowBaseCenterLayout(layoutMode))

setLayoutKind(kind) == setLayoutAs("setLayoutKind", [layoutMode EXCEPT !.kind = kind])

\* No model set and setupViewZones not called: the fields as the constructor sets
\* them, with the default of showNonConflictingChanges.
InitZones ==
    /\ viewModel = 0
    /\ viewModels = << >>
    /\ showNonConflictingChanges = FALSE
    /\ editorZones = NoZones
    /\ registrations = << >>
    /\ sessionDisposables = << >>
    /\ inputModel = "undefined"
    /\ ctxUri = [result |-> "undefined", base |-> "undefined"]
    /\ editorCalls = << >>

\* The widget after its constructor ran _applyLayout(initialLayout).
InitWidget ==
    /\ layoutMode \in IMergeEditorLayout
    /\ baseView = applyLayoutBaseView(layoutMode, FALSE)
    /\ grid = gridDescriptor(layoutMode)
    /\ last = NoCall
    /\ prev = NoCall
    /\ InitZones

NextWidget ==
    \/ \E newLayout \in IMergeEditorLayout : setLayout(newLayout)
    \/ toggleBase
    \/ toggleShowBaseTop
    \/ toggleShowBaseCenter
    \/ \E kind \in MergeEditorLayoutKind : setLayoutKind(kind)


(***************************************************************************)
(* setModel, clearModels, setupViewZones and its disposable, and the        *)
(* showNonConflictingChanges setters.                                       *)
(***************************************************************************)
\* Bounds of the model: the view models created and the calls of setupViewZones.
MaxViewModels == 2

MaxRegistrations == 2

\* The MergeEditorModel objects given to setModel, named by their input.
Models == {"A", "B"}

\* The part of the widget the operations below work on.
WidgetModelState(vm, vms, zones, regs) ==
    [viewModel |-> vm, viewModels |-> vms, editorZones |-> zones, registrations |-> regs]

CurrentModelState == WidgetModelState(viewModel, viewModels, editorZones, registrations)

\* this._viewModel.set(vm, tx) and the autoruns that follow the transaction.
setViewModelOn(w, vm, vms) ==
    LET after == runAutoruns(1, w.registrations, w.editorZones, vm, baseView,
                             IF vm # w.viewModel THEN {"viewModel"} ELSE {})
    IN  WidgetModelState(vm, vms, after.editorZones, after.registrations)

\* setModel(model): undefined clears the view model, a model gets a new
\* MergeEditorViewModel.
setModelOn(w, model) ==
    IF model = "undefined" THEN setViewModelOn(w, 0, w.viewModels)
    ELSE setViewModelOn(w, Len(w.viewModels) + 1,
                        Append(w.viewModels, [model |-> model, disposed |-> FALSE]))

\* editor.setModel(null): the editor loses its view, and the view zones with it.
editorsSetModelNull(zones) == NoZones

\* clearModels(): no view model, and no model in any editor.
clearModelsOn(w) ==
    LET cleared == setViewModelOn(w, 0, w.viewModels)
    IN  [cleared EXCEPT !.editorZones = editorsSetModelNull(@)]

\* setupViewZones(): a new store and an autorun, which runs at once.
setupViewZonesOn(w) ==
    LET regs == Append(w.registrations, Registration(TRUE, FALSE, {}, NoZones))
        run == runUpdate(regs[Len(regs)], regs, w.editorZones, w.viewModel, baseView)
    IN  [w EXCEPT !.registrations = [regs EXCEPT ![Len(regs)] = run.reg],
                  !.editorZones = run.zones]

\* dispose() of the disposable setupViewZones returned: the autorun and the store
\* are disposed, which removes the zones the store holds.
disposeViewZonesOn(w, i) ==
    [w EXCEPT !.registrations[i] = Registration(FALSE, FALSE, {}, NoZones),
              !.editorZones = removeZones(@, w.registrations[i].store)]

\* The widget is left in state w.
BecomesModelState(w) ==
    /\ viewModel' = w.viewModel
    /\ viewModels' = w.viewModels
    /\ editorZones' = w.editorZones
    /\ registrations' = w.registrations

setModel(model) ==
    /\ model # "undefined" => Len(viewModels) < MaxViewModels
    /\ BecomesModelState(setModelOn(CurrentModelState, model))
    /\ UNCHANGED <<layoutMode, baseView, grid, last, prev, showNonConflictingChanges, editorVars,
                   themeVars>>

clearModels ==
    /\ BecomesModelState(clearModelsOn(CurrentModelState))
    /\ UNCHANGED <<layoutMode, baseView, grid, last, prev, showNonConflictingChanges, editorVars,
                   themeVars>>

\* setupViewZones(), called when no earlier result of it is in use.
setupViewZones ==
    /\ Len(registrations) < MaxRegistrations
    /\ \A i \in DOMAIN registrations : ~registrations[i].active
    /\ BecomesModelState(setupViewZonesOn(CurrentModelState))
    /\ UNCHANGED <<layoutMode, baseView, grid, last, prev, showNonConflictingChanges, editorVars,
                   themeVars>>

disposeViewZones(i) ==
    /\ BecomesModelState(disposeViewZonesOn(CurrentModelState, i))
    /\ UNCHANGED <<layoutMode, baseView, grid, last, prev, showNonConflictingChanges, editorVars,
                   themeVars>>

\* setShowNonConflictingChanges(show): the observable changes when show differs.
setShowNonConflictingChanges(show) ==
    LET after == runAutoruns(1, registrations, editorZones, viewModel, baseView,
                             IF show # showNonConflictingChanges
                             THEN {"showNonConflictingChanges"} ELSE {})
    IN  /\ showNonConflictingChanges' = show
        /\ registrations' = after.registrations
        /\ editorZones' = after.editorZones
        /\ UNCHANGED <<layoutMode, baseView, grid, last, prev, viewModel, viewModels,
                       editorVars, themeVars>>

toggleShowNonConflictingChanges == setShowNonConflictingChanges(~showNonConflictingChanges)

\* The widget with a model and its view zones, under changes of layout.
NextViewZones ==
    \/ \E model \in Models \cup {"undefined"} : setModel(model)
    \/ clearModels
    \/ setupViewZones
    \/ \E i \in DOMAIN registrations : disposeViewZones(i)
    \/ \E show \in BOOLEAN : setShowNonConflictingChanges(show)
    \/ toggleShowNonConflictingChanges
    \/ toggleBase
    \/ toggleShowBaseCenter
    \/ \E kind \in MergeEditorLayoutKind : setLayoutKind(kind)

(***************************************************************************)
(* MergeEditor.setInput and clearInput.  A setInput call runs in three     *)
(* parts, separated by its two awaits.                                      *)
(***************************************************************************)
\* Bound of the model: the setInput and clearInput calls made.
MaxEditorCalls == 3

\* The MergeEditorInput objects given to setInput; the model of input "A" is "A".
Inputs == Models

\* A disposable added to _sessionDisposables by call: the view model, the focus
\* autorun, the reset of the URI context keys, the disposable of setupViewZones and
\* the listeners (transient model property, empty detection).
Disposable(kind, c, ref) == [kind |-> kind, call |-> c, ref |-> ref]

NoContextUri == [result |-> "undefined", base |-> "undefined"]

\* The state setInput and clearInput work on: the widget's and the editor's.
EditorState(w, session, ctx) == [widget |-> w, session |-> session, ctx |-> ctx]

\* dispose() of one disposable of the session.
disposeOne(st, d) ==
    CASE d.kind = "viewModel" ->
            [st EXCEPT !.widget.viewModels[d.ref].disposed = TRUE]
      [] d.kind = "ctxReset" -> [st EXCEPT !.ctx = NoContextUri]
      [] d.kind = "viewZones" -> [st EXCEPT !.widget = disposeViewZonesOn(@, d.ref)]
      [] OTHER -> st

RECURSIVE disposeAll(_, _)
disposeAll(st, session) ==
    IF session = << >> THEN st
    ELSE disposeAll(disposeOne(st, Head(session)), Tail(session))

\* this._sessionDisposables.clear(): every disposable is disposed, in order.
clearSession(w, session, ctx) ==
    [disposeAll(EditorState(w, session, ctx), session) EXCEPT !.session = << >>]

\* A call enters setInput and waits for super.setInput.
EditorCall(op, input, state) ==
    [op |-> op, input |-> input, state |-> state,
     overlapped |-> \E c \in DOMAIN editorCalls : editorCalls[c].state \in {"super", "resolve"}]

setInput(input) ==
    /\ Len(editorCalls) < MaxEditorCalls
    /\ editorCalls' = Append(editorCalls, EditorCall("setInput", input, "super"))
    /\ UNCHANGED <<layoutMode, baseView, grid, last, prev, zoneVars,
                   sessionDisposables, inputModel, ctxUri, themeVars>>

\* setInput of call c from the end of super.setInput to `await input.resolve()`.
setInputClear(c) ==
    LET cleared == clearSession(CurrentModelState, sessionDisposables, ctxUri)
    IN  /\ editorCalls[c].op = "setInput" /\ editorCalls[c].state = "super"
        /\ BecomesModelState(setModelOn(cleared.widget, "undefined"))
        /\ sessionDisposables' = cleared.session
        /\ ctxUri' = cleared.ctx
        /\ inputModel' = "undefined"
        /\ editorCalls' = [editorCalls EXCEPT ![c].state = "resolve"]
        /\ UNCHANGED <<layoutMode, baseView, grid, last, prev, showNonConflictingChanges,
                       themeVars>>

\* setInput of call c after input.resolve() resolved: the view model is made and
\* the session is filled.
setInputResolved(c) ==
    LET input == editorCalls[c].input
        withModel == setModelOn(CurrentModelState, input)
        withZones == setupViewZonesOn(withModel)
    IN  /\ editorCalls[c].op = "setInput" /\ editorCalls[c].state = "resolve"
        /\ Len(viewModels) < MaxViewModels
        /\ Len(registrations) < MaxRegistrations
        /\ BecomesModelState(withZones)
        /\ inputModel' = input
        /\ ctxUri' = [result |-> input, base |-> input]
        /\ sessionDisposables' = sessionDisposables \o
                << Disposable("viewModel", c, withModel.viewModel),
                   Disposable("focusAutorun", c, 0),
                   Disposable("ctxReset", c, 0),
                   Disposable("viewZones", c, Len(withZones.registrations)),
                   Disposable("listeners", c, 0) >>
        /\ editorCalls' = [editorCalls EXCEPT ![c].state = "done"]
        /\ UNCHANGED <<layoutMode, baseView, grid, last, prev, showNonConflictingChanges,
                       themeVars>>

\* input.resolve() rejected: setInput of call c ends there.
setInputRejected(c) ==
    /\ editorCalls[c].op = "setInput" /\ editorCalls[c].state = "resolve"
    /\ editorCalls' = [editorCalls EXCEPT ![c].state = "rejected"]
    /\ UNCHANGED <<layoutMode, baseView, grid, last, prev, zoneVars,
                   sessionDisposables, inputModel, ctxUri, themeVars>>

\* clearInput(): the session is cleared and the widget's models are.
clearInput ==
    LET cleared == clearSession(CurrentModelState, sessionDisposables, ctxUri)
    IN  /\ Len(editorCalls) < MaxEditorCalls
        /\ BecomesModelState(clearModelsOn(cleared.widget))
        /\ sessionDisposables' = cleared.session
        /\ ctxUri' = cleared.ctx
        /\ editorCalls' = Append(editorCalls, EditorCall("clearInput", "undefined", "done"))
        /\ UNCHANGED <<layoutMode, baseView, grid, last, prev, showNonConflictingChanges,
                       inputModel, themeVars>>

\* The editor opening and closing inputs.
NextSetInput ==
    \/ \E input \in Inputs : setInput(input)
    \/ \E c \in DOMAIN editorCalls : setInputClear(c)
    \/ \E c \in DOMAIN editorCalls : setInputResolved(c)
    \/ \E c \in DOMAIN editorCalls : setInputRejected(c)
    \/ clearInput

(***************************************************************************)
(* ColorThemeData.  Strings stand for JavaScript values: "undefined" is    *)
(* undefined, the members of Color are Color objects, the members of Hex   *)
(* are strings of a settings or theme file.                                *)
(***************************************************************************)
Undefined == "undefined"

DEFAULT_COLOR_CONFIG_VALUE == "default"

editorForeground == "editor.foreground"

editorBackground == "editor.background"

contrastBorder == "contrastBorder"

ColorIdentifier == {editorForeground, editorBackground, contrastBorder}

\* Color objects, named by their rgba value.
Color == {"Color(#111111)", "Color(#222222)", "Color(#ff0000)"}

\* Color strings as written in settings and theme files; "oops" is no hex color.
Hex == {"#111", "#111111", "#222", "oops"}

\* A value of a customization that is not a string (a number).
NonString == "(number 7)"

\* Color.fromHex(hex): the parsed color, Color.red when hex does not parse.
Color_fromHex(hex) ==
    CASE hex \in {"#111", "#111111"} -> "Color(#111111)"
      [] hex \in {"#222", "#222222"} -> "Color(#222222)"
      [] OTHER -> "Color(#ff0000)"

\* normalizeColor: '#RGB' and '#RRGGBB' strings and Color objects to upper case
\* '#RRGGBB'; undefined for a missing value and for a string that is no hex color.
normalizeColor(color) ==
    CASE color \in {"#111", "#111111", "Color(#111111)"} -> "#111111"
      [] color \in {"#222", "#222222", "Color(#222222)"} -> "#222222"
      [] color = "Color(#ff0000)" -> "#FF0000"
      [] color = "#316bcd" -> "#316BCD"
      [] color = "#6796e6" -> "#6796E6"
      [] OTHER -> Undefined

\* An object without properties, as a map from color ids.
EmptyMap == [c \in ColorIdentifier |-> Undefined]

\* Object.keys(map)
ObjectKeys(map) == { c \in DOMAIN map : map[c] # Undefined }

\* ITextMateThemingRule: scope (a string, an array of strings, or missing: no names)
\* and settings (hasSettings is FALSE for a rule without a settings property).
NoSettings ==
    [foreground |-> Undefined, background |-> Undefined, fontStyle |-> Undefined,
     fontFamily |-> Undefined, fontSize |-> Undefined, lineHeight |-> Undefined]

ForegroundSettings(fg) == [NoSettings EXCEPT !.foreground = fg]

TextMateRule(scope, settings) ==
    [scope |-> [isArray |-> FALSE, names |-> <<scope>>], hasSettings |-> TRUE,
     settings |-> settings]

\* The default rules appended by tokenColors: defaultThemeColors[this.type], of which
\* the model keeps the first ('token.info-token'), whose scope stops the appending.
defaultThemeColors(type) ==
    IF type \in {"light", "hcLight"}
    THEN << TextMateRule("token.info-token", ForegroundSettings("#316bcd")) >>
    ELSE << TextMateRule("token.info-token", ForegroundSettings("#6796e6")) >>

\* ColorThemeData.themeTypeSelector, classNames: id.split(' ')[0]; an id is kept as
\* the sequence of its class names.
themeTypeSelector(t) == t.id[1]

\* ColorThemeData.type
type(t) ==
    CASE themeTypeSelector(t) = "vs" -> "light"
      [] themeTypeSelector(t) = "hc-black" -> "hcDark"
      [] themeTypeSelector(t) = "hc-light" -> "hcLight"
      [] OTHER -> "dark"

\* colorRegistry.resolveDefaultColor(colorId, theme): the registered default of the
\* color for the theme's type; contrastBorder has none in the light and dark themes.
getDefault(t, colorId) ==
    CASE colorId = editorForeground ->
            (IF type(t) \in {"light", "hcLight"} THEN "Color(#222222)" ELSE "Color(#111111)")
      [] colorId = editorBackground ->
            (IF type(t) \in {"light", "hcLight"} THEN "Color(#111111)" ELSE "Color(#222222)")
      [] OTHER -> Undefined

\* A getColor that lets the theme's color win over a customized color.
getColor_ThemeFirst(t, colorId, useDefault) ==
    IF t.colorMap[colorId] # Undefined THEN t.colorMap[colorId]
    ELSE IF t.customColorMap[colorId] \in Color THEN t.customColorMap[colorId]
    ELSE IF useDefault # "false" THEN getDefault(t, colorId)
    ELSE Undefined

\* ColorThemeData.getColor(colorId, useDefault); useDefault is "true", "false" or
\* "undefined" (argument left out).
getColor(t, colorId, useDefault) ==
    LET customColor == t.customColorMap[colorId] IN
    IF customColor \in Color THEN customColor
    ELSE IF customColor = Undefined /\ t.colorMap[colorId] # Undefined
         THEN t.colorMap[colorId]
    ELSE IF useDefault # "false" THEN getDefault(t, colorId)
    ELSE Undefined

\* ColorThemeData.defines(colorId)
defines(t, colorId) ==
    LET customColor == t.customColorMap[colorId] IN
    IF customColor \in Color THEN TRUE
    ELSE customColor = Undefined /\ t.colorMap[colorId] # Undefined

\* ColorThemeData.semanticHighlighting
semanticHighlighting(t) ==
    IF t.customSemanticHighlighting # Undefined THEN t.customSemanticHighlighting = "true"
    ELSE IF t.customSemanticHighlightingDeprecated # Undefined
         THEN t.customSemanticHighlightingDeprecated = "true"
    ELSE t.themeSemanticHighlighting = "true"

\* addRule of tokenColors: the rules with a scope and settings, colors normalized.
RECURSIVE addRules(_, _)
addRules(result, rules) ==
    IF rules = << >> THEN result
    ELSE LET rule == Head(rules) IN
         addRules(
            IF rule.scope.names # << >> /\ rule.hasSettings
            THEN Append(result,
                    [rule EXCEPT !.settings.foreground = normalizeColor(rule.settings.foreground),
                                 !.settings.background = normalizeColor(rule.settings.background)])
            ELSE result,
            Tail(rules))

hasDefaultTokens(rules) ==
    \E i \in DOMAIN rules :
        /\ rules[i].scope.names # << >> /\ rules[i].hasSettings
        /\ ~rules[i].scope.isArray /\ rules[i].scope.names = <<"token.info-token">>

\* What the tokenColors getter computes from the readonly fields.
computeTokenColors(t) ==
    LET foreground == IF getColor(t, editorForeground, Undefined) # Undefined
                      THEN getColor(t, editorForeground, Undefined)
                      ELSE getDefault(t, editorForeground)
        background == IF getColor(t, editorBackground, Undefined) # Undefined
                      THEN getColor(t, editorBackground, Undefined)
                      ELSE getDefault(t, editorBackground)
        first == [scope |-> [isArray |-> FALSE, names |-> << >>], hasSettings |-> TRUE,
                  settings |-> [NoSettings EXCEPT !.foreground = normalizeColor(foreground),
                                                  !.background = normalizeColor(background)]]
        own == addRules(addRules(<<first>>, t.themeTokenColors), t.customTokenColors)
    IN  IF hasDefaultTokens(t.themeTokenColors) \/ hasDefaultTokens(t.customTokenColors)
        THEN own
        ELSE addRules(own, defaultThemeColors(type(t)))

\* ColorThemeData.tokenColors: the cached rules once computed (the empty sequence
\* stands for the unset cache _textMateThemingRules).
tokenColors(t) ==
    IF t.textMateThemingRules # << >> THEN t.textMateThemingRules ELSE computeTokenColors(t)

(***************************************************************************)
(* ColorThemeData.equals and its helpers.  A result is "true", "false" or  *)
(* "throws" (a TypeError from reading a property of a missing settings).   *)
(***************************************************************************)
\* arraysEqual(a, b) with the default equality (===) on strings.
arraysEqualStrict(a, b) ==
    /\ Len(a) = Len(b)
    /\ \A i \in 1..Len(a) : a[i] = b[i]

\* The scope test of tokenColorRuleEqual: TRUE when the scopes are taken as equal.
scopeEqual(a, b) ==
    \/ (~a.scope.isArray /\ ~b.scope.isArray /\ a.scope.names = b.scope.names)
    \/ (a.scope.isArray /\ b.scope.isArray /\ arraysEqualStrict(a.scope.names, b.scope.names))

\* tokenColorRuleEqual(a, b)
tokenColorRuleEqual(a, b) ==
    IF ~scopeEqual(a, b) THEN "false"
    ELSE IF ~a.hasSettings \/ ~b.hasSettings THEN "throws"
    ELSE IF /\ a.settings.foreground = b.settings.foreground
            /\ a.settings.background = b.settings.background
            /\ a.settings.fontStyle = b.settings.fontStyle
            /\ a.settings.fontFamily = b.settings.fontFamily
            /\ a.settings.fontSize = b.settings.fontSize
            /\ a.settings.lineHeight = b.settings.lineHeight
         THEN "true" ELSE "false"

\* TokenStyle.equals(s1, s2)
TokenStyle_equals(s1, s2) ==
    /\ s1.foreground = s2.foreground /\ s1.bold = s2.bold /\ s1.underline = s2.underline
    /\ s1.strikethrough = s2.strikethrough /\ s1.italic = s2.italic

\* semanticTokenRuleEqual(a, b)
semanticTokenRuleEqual(a, b) ==
    IF a.selector.id = b.selector.id /\ TokenStyle_equals(a.style, b.style)
    THEN "true" ELSE "false"

\* The call equals(a[i], b[i]) of arraysEqual, for the function passed as equals.
callEqualsFn(equalsFn, x, y) ==
    IF equalsFn = "tokenColorRuleEqual" THEN tokenColorRuleEqual(x, y)
    ELSE semanticTokenRuleEqual(x, y)

\* arraysEqual(a, b, equals): the elements are compared in order and the first
\* comparison that is not true decides.
arraysEqual(a, b, equalsFn) ==
    IF Len(a) # Len(b) THEN "false"
    ELSE LET differ == { i \in 1..Len(a) : callEqualsFn(equalsFn, a[i], b[i]) # "true" } IN
         IF differ = {} THEN "true"
         ELSE LET first == CHOOSE i \in differ : \A j \in differ : i <= j
              IN  callEqualsFn(equalsFn, a[first], b[first])

\* The color map comparison of equals: same number of keys, and every color of
\* this equal to the color of other under the same key.
colorMapsEqual(m, o) ==
    /\ Cardinality(ObjectKeys(m)) = Cardinality(ObjectKeys(o))
    /\ \A key \in ObjectKeys(m) : o[key] # Undefined /\ m[key] = o[key]

\* The custom color map comparison of equals: 'default' only equals 'default'.
customColorMapsEqual(m, o) ==
    /\ Cardinality(ObjectKeys(m)) = Cardinality(ObjectKeys(o))
    /\ \A key \in ObjectKeys(m) :
        IF m[key] = DEFAULT_COLOR_CONFIG_VALUE \/ o[key] = DEFAULT_COLOR_CONFIG_VALUE
        THEN m[key] = o[key]
        ELSE o[key] # Undefined /\ m[key] = o[key]

\* An equals that leaves out the comparison of the custom color maps.
equalsFields_NoCustomColors(this, other) ==
    IF this.id # other.id \/ this.settingsId # other.settingsId THEN "false"
    ELSE IF semanticHighlighting(this) # semanticHighlighting(other) THEN "false"
    ELSE IF ~colorMapsEqual(this.colorMap, other.colorMap) THEN "false"
    ELSE IF arraysEqual(this.themeTokenColors, other.themeTokenColors, "tokenColorRuleEqual") # "true"
         THEN arraysEqual(this.themeTokenColors, other.themeTokenColors, "tokenColorRuleEqual")
    ELSE IF arraysEqual(this.customTokenColors, other.customTokenColors, "tokenColorRuleEqual") # "true"
         THEN arraysEqual(this.customTokenColors, other.customTokenColors, "tokenColorRuleEqual")
    ELSE IF arraysEqual(this.semanticTokenRules, other.semanticTokenRules, "semanticTokenRuleEqual") # "true"
         THEN "false"
    ELSE arraysEqual(this.customSemanticTokenRules, other.customSemanticTokenRules,
                     "semanticTokenRuleEqual")

\* The steps of equals after the identity test, in the order of the code.
equalsFields(this, other) ==
    IF this.id # other.id \/ this.settingsId # other.settingsId THEN "false"
    ELSE IF semanticHighlighting(this) # semanticHighlighting(other) THEN "false"
    ELSE IF ~colorMapsEqual(this.colorMap, other.colorMap) THEN "false"
    ELSE IF ~customColorMapsEqual(this.customColorMap, other.customColorMap) THEN "false"
    ELSE IF arraysEqual(this.themeTokenColors, other.themeTokenColors, "tokenColorRuleEqual") # "true"
         THEN arraysEqual(this.themeTokenColors, other.themeTokenColors, "tokenColorRuleEqual")
    ELSE IF arraysEqual(this.customTokenColors, other.customTokenColors, "tokenColorRuleEqual") # "true"
         THEN arraysEqual(this.customTokenColors, other.customTokenColors, "tokenColorRuleEqual")
    ELSE IF arraysEqual(this.semanticTokenRules, other.semanticTokenRules, "semanticTokenRuleEqual") # "true"
         THEN "false"
    ELSE arraysEqual(this.customSemanticTokenRules, other.customSemanticTokenRules,
                     "semanticTokenRuleEqual")

(***************************************************************************)
(* Theme-scoped customizations.  A settings id and the theme names of a    *)
(* scope key "[name][name]..." are sequences of characters.                *)
(***************************************************************************)
THEME_SCOPE_WILDCARD == "*"

charAt(str, i) == IF i \in 1..Len(str) THEN str[i] ELSE ""

includes(str, sub) ==
    \E i \in 1..(Len(str) + 1) :
        i + Len(sub) - 1 <= Len(str) /\ SubSeq(str, i, i + Len(sub) - 1) = sub

startsWith(str, sub) == Len(sub) <= Len(str) /\ SubSeq(str, 1, Len(sub)) = sub

endsWith(str, sub) ==
    Len(sub) <= Len(str) /\ SubSeq(str, Len(str) - Len(sub) + 1, Len(str)) = sub

\* ColorThemeData.isThemeScopeMatch(themeId)
isThemeScopeMatch(t, themeId) ==
    LET themeIdFirstChar == charAt(themeId, 1)
        themeIdLastChar == charAt(themeId, Len(themeId))
        themeIdPrefix == SubSeq(themeId, 1, Len(themeId) - 1)
        themeIdInfix == SubSeq(themeId, 2, Len(themeId) - 1)
        themeIdSuffix == SubSeq(themeId, 2, Len(themeId))
    IN  \/ themeId = t.settingsId
        \/ (/\ includes(t.settingsId, themeIdInfix)
            /\ themeIdFirstChar = THEME_SCOPE_WILDCARD
            /\ themeIdLastChar = THEME_SCOPE_WILDCARD)
        \/ (startsWith(t.settingsId, themeIdPrefix) /\ themeIdLastChar = THEME_SCOPE_WILDCARD)
        \/ (endsWith(t.settingsId, themeIdSuffix) /\ themeIdFirstChar = THEME_SCOPE_WILDCARD)

\* The loops of getThemeSpecificColors over the scope keys and over the theme names
\* of a key: the values of the scoped sections that apply to the theme, one for each
\* matching name, in order.
RECURSIVE matchingNames(_, _, _)
matchingNames(t, names, value) ==
    IF names = << >> THEN << >>
    ELSE (IF isThemeScopeMatch(t, Head(names)) THEN <<value>> ELSE << >>)
         \o matchingNames(t, Tail(names), value)

RECURSIVE matchingScopes(_, _)
matchingScopes(t, scoped) ==
    IF scoped = << >> THEN << >>
    ELSE matchingNames(t, Head(scoped).names, Head(scoped).value)
         \o matchingScopes(t, Tail(scoped))

\* getThemeSpecificColors for color customizations: a later value of a color
\* replaces an earlier one.
RECURSIVE mergeScopedColors(_, _)
mergeScopedColors(merged, values) ==
    IF values = << >> THEN merged
    ELSE mergeScopedColors(
            [c \in ColorIdentifier |->
                IF Head(values)[c] # Undefined THEN Head(values)[c] ELSE merged[c]],
            Tail(values))

\* addColors of _computeCustomColorMap
addColors(customColorMap, colors) ==
    [c \in ColorIdentifier |->
        IF colors[c] = DEFAULT_COLOR_CONFIG_VALUE THEN DEFAULT_COLOR_CONFIG_VALUE
        ELSE IF colors[c] # Undefined /\ colors[c] # NonString THEN Color_fromHex(colors[c])
        ELSE customColorMap[c]]

\* ColorThemeData._computeCustomColorMap(colors)
computeCustomColorMap(t, colors) ==
    LET plain == addColors(EmptyMap, colors.plain)
        matching == matchingScopes(t, colors.scoped)
    IN  IF matching = << >> THEN plain
        ELSE addColors(plain, mergeScopedColors(EmptyMap, matching))

\* tokenGroupToScopesMap, in the order of its keys.
tokenGroups == <<"comments", "strings", "keywords", "numbers", "types", "functions", "variables">>

tokenGroupToScopesMap ==
    [comments |-> <<"comment", "punctuation.definition.comment">>,
     strings |-> <<"string", "meta.embedded.assembly">>,
     keywords |-> <<"keyword - keyword.operator", "keyword.control", "storage", "storage.type">>,
     numbers |-> <<"constant.numeric">>,
     types |-> <<"entity.name.type", "entity.name.class", "support.type", "support.class">>,
     functions |-> <<"entity.name.function", "support.function">>,
     variables |-> <<"variable", "entity.name.variable">>]

NoGroups == [g \in DOMAIN tokenGroupToScopesMap |-> Undefined]

\* A token color customization without properties.
NoTokenColors ==
    [groups |-> NoGroups, textMateRules |-> [isArray |-> FALSE, rules |-> << >>],
     semanticHighlighting |-> Undefined]

\* The rules of one token group: { scope, settings: { foreground: value } } for each
\* scope of the group.
groupRules(group, value) ==
    [i \in 1..Len(tokenGroupToScopesMap[group]) |->
        TextMateRule(tokenGroupToScopesMap[group][i], ForegroundSettings(value))]

RECURSIVE allGroupRules(_, _)
allGroupRules(groups, custom) ==
    IF groups = << >> THEN << >>
    ELSE (IF custom.groups[Head(groups)] # Undefined
          THEN groupRules(Head(groups), custom.groups[Head(groups)]) ELSE << >>)
         \o allGroupRules(Tail(groups), custom)

\* addCustomTokenColors of _computeCustomTokenColors, applied to acc =
\* [rules, deprecated].
addCustomTokenColors(acc, custom) ==
    [rules |-> acc.rules
               \o allGroupRules(tokenGroups, custom)
               \o (IF custom.textMateRules.isArray
                   THEN SelectSeq(custom.textMateRules.rules,
                                  LAMBDA r : r.scope.names # << >> /\ r.hasSettings)
                   ELSE << >>),
     deprecated |-> IF custom.semanticHighlighting # Undefined
                    THEN custom.semanticHighlighting ELSE acc.deprecated]

\* getThemeSpecificColors for token color customizations: arrays are concatenated,
\* any other value replaces the earlier one when it is truthy.
RECURSIVE mergeScopedTokenColors(_, _)
mergeScopedTokenColors(merged, values) ==
    IF values = << >> THEN merged
    ELSE LET o == Head(values) IN
         mergeScopedTokenColors(
            [groups |-> [g \in DOMAIN tokenGroupToScopesMap |->
                            IF o.groups[g] # Undefined THEN o.groups[g] ELSE merged.groups[g]],
             textMateRules |->
                 IF merged.textMateRules.isArray /\ o.textMateRules.isArray
                 THEN [isArray |-> TRUE,
                       rules |-> merged.textMateRules.rules \o o.textMateRules.rules]
                 ELSE IF o.textMateRules.isArray THEN o.textMateRules
                 ELSE merged.textMateRules,
             semanticHighlighting |->
                 IF o.semanticHighlighting = "true" THEN "true"
                 ELSE merged.semanticHighlighting],
            Tail(values))

\* ColorThemeData._computeCustomTokenColors(customTokenColors)
computeCustomTokenColors(t, customTokenColors) ==
    LET first == addCustomTokenColors([rules |-> << >>, deprecated |-> Undefined],
                                      customTokenColors.plain)
        matching == matchingScopes(t, customTokenColors.scoped)
    IN  IF matching = << >> THEN first
        ELSE addCustomTokenColors(first, mergeScopedTokenColors(NoTokenColors, matching))

(***************************************************************************)
(* Semantic token rules.                                                    *)
(***************************************************************************)
\* Selector strings of settings and theme files; "!bad" does not parse.
Selectors == {"variable", "type", "!bad"}

\* tokenClassificationRegistry.parseTokenSelector throws on this selector.
selectorThrows(selectorString) == selectorString = "!bad"

NoStyle ==
    [foreground |-> Undefined, bold |-> Undefined, underline |-> Undefined,
     strikethrough |-> Undefined, italic |-> Undefined]

\* The settings of a semantic rule: a color string, a style object (of which the
\* model keeps foreground and bold), or a value that is neither (kind "other").
StringSetting(hex) == [kind |-> "string", foreground |-> hex, bold |-> Undefined]

ObjectSetting(hex, bold) == [kind |-> "object", foreground |-> hex, bold |-> bold]

OtherSetting == [kind |-> "other", foreground |-> Undefined, bold |-> Undefined]

\* isSemanticTokenColorizationSetting(style)
isSemanticTokenColorizationSetting(settings) ==
    settings.kind = "object" /\ (settings.foreground # Undefined \/ settings.bold # Undefined)

\* The style readSemanticTokenRule builds with TokenStyle.fromSettings (hasStyle is
\* FALSE where the code leaves style undefined).
ruleStyle(settings) ==
    IF settings.kind = "string"
    THEN [hasStyle |-> TRUE,
          style |-> [NoStyle EXCEPT !.foreground = Color_fromHex(settings.foreground)]]
    ELSE IF isSemanticTokenColorizationSetting(settings)
    THEN [hasStyle |-> TRUE,
          style |-> [NoStyle EXCEPT
                        !.foreground = IF settings.foreground # Undefined
                                       THEN Color_fromHex(settings.foreground) ELSE Undefined,
                        !.bold = settings.bold]]
    ELSE [hasStyle |-> FALSE, style |-> NoStyle]

\* readSemanticTokenRule(selectorString, settings) for a selector that parses: the
\* rules it adds (none when no style results).
readSemanticTokenRule(selectorString, settings) ==
    IF ruleStyle(settings).hasStyle
    THEN << [selector |-> [id |-> selectorString], style |-> ruleStyle(settings).style] >>
    ELSE << >>

\* readSemanticTokenRules of _computeCustomSemanticTokenColors: a selector that
\* does not parse is ignored.
RECURSIVE readSemanticTokenRules(_)
readSemanticTokenRules(section) ==
    IF section = << >> THEN << >>
    ELSE (IF selectorThrows(Head(section).key) THEN << >>
          ELSE readSemanticTokenRule(Head(section).key, Head(section).settings))
         \o readSemanticTokenRules(Tail(section))

NoSemanticTokenColors == [enabled |-> Undefined, rules |-> [isObject |-> FALSE, section |-> << >>]]

\* getThemeSpecificColors for semantic token customizations: a truthy value replaces
\* the earlier one.
RECURSIVE mergeScopedSemantic(_, _)
mergeScopedSemantic(merged, values) ==
    IF values = << >> THEN merged
    ELSE mergeScopedSemantic(
            [enabled |-> IF Head(values).enabled = "true" THEN "true" ELSE merged.enabled,
             rules |-> IF Head(values).rules.isObject THEN Head(values).rules ELSE merged.rules],
            Tail(values))

\* ColorThemeData._computeCustomSemanticTokenColors(semanticTokenColors); given is
\* FALSE for the argument undefined.
computeCustomSemanticTokenColors(t, semanticTokenColors) ==
    IF ~semanticTokenColors.given
    THEN [rules |-> << >>, customSemanticHighlighting |-> Undefined]
    ELSE LET plain == semanticTokenColors.plain
             own == IF plain.rules.isObject
                    THEN readSemanticTokenRules(plain.rules.section) ELSE << >>
             matching == matchingScopes(t, semanticTokenColors.scoped)
             specific == mergeScopedSemantic(NoSemanticTokenColors, matching)
         IN  IF matching = << >>
             THEN [rules |-> own, customSemanticHighlighting |-> plain.enabled]
             ELSE [rules |-> own \o (IF specific.rules.isObject
                                     THEN readSemanticTokenRules(specific.rules.section)
                                     ELSE << >>),
                   customSemanticHighlighting |->
                       IF specific.enabled # Undefined THEN specific.enabled
                       ELSE plain.enabled]

(***************************************************************************)
(* Theme files and their loading: _loadColorTheme and _loadSyntaxTokens.   *)
(***************************************************************************)
\* What a load collects: result of ColorThemeData._load.
EmptyResult ==
    [colors |-> EmptyMap, textMateRules |-> << >>, semanticTokenRules |-> << >>,
     semanticHighlighting |-> "false"]

\* JavaScript's a || b on "true", "false" and "undefined".
Or(a, b) == IF a = "true" THEN a ELSE b

\* convertSettings(settings, result) of themeCompatibility: every rule is appended
\* to the TextMate rules, and a rule without scope gives the editor foreground and
\* background colors.
RECURSIVE convertSettings(_, _)
convertSettings(settings, result) ==
    IF settings = << >> THEN result
    ELSE LET rule == Head(settings)
             global == rule.scope.names = << >> /\ rule.hasSettings
             colors ==
                [c \in ColorIdentifier |->
                    IF global /\ c = editorForeground /\ rule.settings.foreground # Undefined
                    THEN Color_fromHex(rule.settings.foreground)
                    ELSE IF global /\ c = editorBackground /\ rule.settings.background # Undefined
                    THEN Color_fromHex(rule.settings.background)
                    ELSE result.colors[c]]
         IN  convertSettings(Tail(settings),
                [result EXCEPT !.textMateRules = Append(@, rule), !.colors = colors])

\* The outcome of a load step: resolved with the collected result, or rejected with
\* error; reads counts the resources read.
Resolved(result, reads) == [ok |-> TRUE, error |-> "", result |-> result, reads |-> reads]

Rejected(error, reads) == [ok |-> FALSE, error |-> error, result |-> EmptyResult, reads |-> reads]

\* The rejections the file makes itself, each with a new Error; a failed read of a
\* JSON file rejects with whatever the resource loader rejects with.
ErrorMessages ==
    {"error.cannotparsejson", "error.invalidformat", "error.invalidformat.colors",
     "error.invalidformat.tokenColors", "error.invalidformat.semanticTokenColors",
     "error.plist.invalidformat", "error.cannotparse", "error.cannotload"}

\* A _loadSyntaxTokens that leaves out the test of 'settings' and converts nothing
\* when it is not an array.
loadSyntaxTokens_NoArrayTest(tm, result, reads) ==
    IF ~tm.readable THEN Rejected("error.cannotload", reads + 1)
    ELSE IF tm.plistThrows THEN Rejected("error.cannotparse", reads + 1)
    ELSE IF ~tm.settingsIsArray THEN Resolved(result, reads + 1)
    ELSE Resolved(convertSettings(tm.settings, result), reads + 1)

\* _loadSyntaxTokens(themeLocation, result) on the tmTheme file tm.
loadSyntaxTokens(tm, result, reads) ==
    IF ~tm.readable THEN Rejected("error.cannotload", reads + 1)
    ELSE IF tm.plistThrows THEN Rejected("error.cannotparse", reads + 1)
    ELSE IF ~tm.settingsIsArray THEN Rejected("error.plist.invalidformat", reads + 1)
    ELSE Resolved(convertSettings(tm.settings, result), reads + 1)

\* The loop over the colors of a JSON theme file: 'default' deletes the color
\* collected so far, a string sets it.
loadColors(colors, map) ==
    [c \in ColorIdentifier |->
        IF map[c] = DEFAULT_COLOR_CONFIG_VALUE THEN Undefined
        ELSE IF map[c] # Undefined /\ map[c] # NonString THEN Color_fromHex(map[c])
        ELSE colors[c]]

\* The loop over semanticTokenColors of a JSON theme file: the rules collected, and
\* whether a selector threw.
RECURSIVE loadSemanticTokenColors(_, _)
loadSemanticTokenColors(section, rules) ==
    IF section = << >> THEN [threw |-> FALSE, rules |-> rules]
    ELSE IF selectorThrows(Head(section).key) THEN [threw |-> TRUE, rules |-> rules]
    ELSE loadSemanticTokenColors(Tail(section),
            rules \o readSemanticTokenRule(Head(section).key, Head(section).settings))

\* The part of _loadColorTheme on a JSON object after include and settings.
loadJsonProperties(file, result, reads) ==
    LET r1 == [result EXCEPT
                 !.semanticHighlighting = Or(result.semanticHighlighting, file.semanticHighlighting)]
        colorsTruthy == file.colors.kind \in {"other", "object"}
        r2 == IF file.colors.kind = "object"
              THEN [r1 EXCEPT !.colors = loadColors(r1.colors, file.colors.map)] ELSE r1
        tokens == CASE file.tokenColors.kind = "array" ->
                          Resolved([r2 EXCEPT !.textMateRules = @ \o file.tokenColors.rules], reads)
                    [] file.tokenColors.kind = "string" ->
                          loadSyntaxTokens(file.tokenColors.file, r2, reads)
                    [] file.tokenColors.kind = "other" ->
                          Rejected("error.invalidformat.tokenColors", reads)
                    [] OTHER -> Resolved(r2, reads)
        semantic == loadSemanticTokenColors(file.semanticTokenColors.section,
                                            tokens.result.semanticTokenRules)
    IN  IF colorsTruthy /\ file.colors.kind # "object"
        THEN Rejected("error.invalidformat.colors", reads)
        ELSE IF ~tokens.ok THEN tokens
        ELSE IF file.semanticTokenColors.kind # "object" THEN tokens
        ELSE IF semantic.threw
        THEN Rejected("error.invalidformat.semanticTokenColors", tokens.reads)
        ELSE Resolved([tokens.result EXCEPT !.semanticTokenRules = semantic.rules], tokens.reads)

\* _loadColorTheme(themeLocation, result) on the file found at the location:
\* file.ext is the extension of the location.
RECURSIVE loadColorTheme(_, _, _)
loadColorTheme(file, result, reads) ==
    IF file.ext # ".json" THEN loadSyntaxTokens(file, result, reads)
    ELSE IF ~file.readable THEN Rejected("readExtensionResource", reads + 1)
    ELSE IF file.parseErrors THEN Rejected("error.cannotparsejson", reads + 1)
    ELSE IF file.nodeType # "object" THEN Rejected("error.invalidformat", reads + 1)
    ELSE LET included == IF file.include.given
                         THEN loadColorTheme(file.include.file, result, reads + 1)
                         ELSE Resolved(result, reads + 1)
         IN  IF ~included.ok THEN included
             ELSE IF file.settings.isArray
             THEN Resolved(convertSettings(file.settings.rules, included.result), included.reads)
             ELSE loadJsonProperties(file, included.result, included.reads)

(***************************************************************************)
(* ColorThemeData instances: the constructor, the static constructors and  *)
(* the with* methods.                                                       *)
(***************************************************************************)
\* Bound of the model: the number of ColorThemeData instances created.
MaxThemes == 2

\* Bound of the model: the number of ensureLoaded and reload calls.
MaxPromises == 1

\* new ColorThemeData(init): the fields of init and an unset tokenColors cache.
ColorThemeData(init) ==
    [id |-> init.id, label |-> init.label, settingsId |-> init.settingsId,
     isLoaded |-> init.isLoaded, location |-> init.location,
     themeSemanticHighlighting |-> init.themeSemanticHighlighting,
     customSemanticHighlighting |-> init.customSemanticHighlighting,
     customSemanticHighlightingDeprecated |-> init.customSemanticHighlightingDeprecated,
     themeTokenColors |-> init.themeTokenColors,
     customTokenColors |-> init.customTokenColors,
     colorMap |-> init.colorMap, customColorMap |-> init.customColorMap,
     semanticTokenRules |-> init.semanticTokenRules,
     customSemanticTokenRules |-> init.customSemanticTokenRules,
     textMateThemingRules |-> << >>]

\* The fields the static constructors leave out or set to empty.
EmptyInit ==
    [id |-> << >>, label |-> "", settingsId |-> << >>, isLoaded |-> FALSE,
     location |-> Undefined,
     themeSemanticHighlighting |-> Undefined, customSemanticHighlighting |-> Undefined,
     customSemanticHighlightingDeprecated |-> Undefined,
     themeTokenColors |-> << >>, customTokenColors |-> << >>,
     colorMap |-> EmptyMap, customColorMap |-> EmptyMap,
     semanticTokenRules |-> << >>, customSemanticTokenRules |-> << >>]

\* ColorThemeData.createUnloadedTheme(id, colorMap): settingsId is '__' + id.
createUnloadedThemeData(id, colorMap) ==
    ColorThemeData([EmptyInit EXCEPT
        !.id = <<id>>, !.settingsId = <<"_", "_", id>>, !.isLoaded = FALSE,
        !.colorMap = [c \in ColorIdentifier |->
                        IF colorMap[c] # Undefined THEN Color_fromHex(colorMap[c])
                        ELSE Undefined]])

\* ColorThemeData.createLoadedEmptyTheme(id, settingsId)
createLoadedEmptyThemeData(id, settingsId) ==
    ColorThemeData([EmptyInit EXCEPT !.id = <<id>>, !.settingsId = settingsId, !.isLoaded = TRUE])

\* ColorThemeData.fromExtensionTheme(theme, colorThemeLocation, extensionData): the
\* id is the base theme followed by the CSS selector of the extension's theme.
fromExtensionThemeData(theme, colorThemeLocation) ==
    ColorThemeData([EmptyInit EXCEPT
        !.id = <<IF theme.uiTheme # Undefined THEN theme.uiTheme ELSE "vs-dark", theme.selector>>,
        !.label = theme.label,
        !.settingsId = IF theme.id # << >> THEN theme.id ELSE theme.labelChars,
        !.isLoaded = FALSE,
        !.location = colorThemeLocation])

\* ColorThemeData.fromStorageData(storageService) for stored data with id and
\* settingsId: a loaded theme without location.
fromStorageDataData(data) ==
    ColorThemeData([EmptyInit EXCEPT
        !.id = data.id, !.label = data.label, !.settingsId = data.settingsId,
        !.isLoaded = TRUE,
        !.themeSemanticHighlighting = data.themeSemanticHighlighting,
        !.themeTokenColors = data.themeTokenColors,
        !.colorMap = [c \in ColorIdentifier |->
                        IF data.colorMap[c] # Undefined THEN Color_fromHex(data.colorMap[c])
                        ELSE Undefined],
        !.semanticTokenRules = data.semanticTokenRules])

\* withCustomColors(colors): new ColorThemeData({ ...init, customColorMap })
withCustomColorsData(t, colors) ==
    ColorThemeData([t EXCEPT !.customColorMap = computeCustomColorMap(t, colors)])

\* withCustomTokenColors(customTokenColors)
withCustomTokenColorsData(t, customTokenColors) ==
    ColorThemeData([t EXCEPT
        !.customTokenColors = computeCustomTokenColors(t, customTokenColors).rules,
        !.customSemanticHighlightingDeprecated =
            computeCustomTokenColors(t, customTokenColors).deprecated])

\* withCustomSemanticTokenColors(semanticTokenColors)
withCustomSemanticTokenColorsData(t, semanticTokenColors) ==
    ColorThemeData([t EXCEPT
        !.customSemanticTokenRules =
            computeCustomSemanticTokenColors(t, semanticTokenColors).rules,
        !.customSemanticHighlighting =
            computeCustomSemanticTokenColors(t, semanticTokenColors).customSemanticHighlighting])

\* withCustomizations(settings): the three with* methods in a chain.
withCustomizationsData(t, settings) ==
    withCustomSemanticTokenColorsData(
        withCustomTokenColorsData(
            withCustomColorsData(t, settings.colorCustomizations),
            settings.tokenColorCustomizations),
        settings.semanticTokenColorCustomizations)

\* The instance _load makes of the receiver t and the result of _loadColorTheme.
loadData(t, result) ==
    ColorThemeData([t EXCEPT
        !.isLoaded = TRUE,
        !.themeSemanticHighlighting = result.semanticHighlighting,
        !.colorMap = result.colors,
        !.themeTokenColors = result.textMateRules,
        !.semanticTokenRules = result.semanticTokenRules])

(***************************************************************************)
(* The arguments the model calls the ColorThemeData operations with.       *)
(***************************************************************************)
ColorsOf(fg, bg, cb) ==
    [c \in ColorIdentifier |->
        IF c = editorForeground THEN fg ELSE IF c = editorBackground THEN bg ELSE cb]

Scoped(names, value) == [names |-> names, value |-> value]

\* The ids and color maps given to createUnloadedTheme.
UnloadedThemeIds == {"vs-dark", "vs"}

UnloadedColorMaps == {EmptyMap, ColorsOf(Undefined, "#111", Undefined)}

\* The theme contributions given to fromExtensionTheme, and their locations.
ExtensionThemes ==
    { [uiTheme |-> "vs", selector |-> "ext-themes-ab-json", label |-> "Ab",
       labelChars |-> <<"A", "b">>, id |-> << >>] }

ThemeLocations == {"./themes/ab.json", "./themes/ab.tmTheme"}

\* extname(location)
extname(location) == IF location = "./themes/ab.json" THEN ".json" ELSE ".tmTheme"

CommentRule(fg) == TextMateRule("comment", ForegroundSettings(fg))

\* A rule of a theme file that has a scope and no settings.
RuleWithoutSettings ==
    [scope |-> [isArray |-> FALSE, names |-> <<"comment">>], hasSettings |-> FALSE,
     settings |-> NoSettings]

\* A rule without scope: the global settings of a TextMate theme.
GlobalRule(fg, bg) ==
    [scope |-> [isArray |-> FALSE, names |-> << >>], hasSettings |-> TRUE,
     settings |-> [NoSettings EXCEPT !.foreground = fg, !.background = bg]]

VariableRule(hex) ==
    [selector |-> [id |-> "variable"],
     style |-> [NoStyle EXCEPT !.foreground = Color_fromHex(hex)]]

\* The data fromStorageData finds in the storage.
StoredData(colorMap, themeTokenColors) ==
    [id |-> <<"vs-dark", "ext-themes-ab-json">>, label |-> "Ab", settingsId |-> <<"A", "b">>,
     themeSemanticHighlighting |-> "true", themeTokenColors |-> themeTokenColors,
     colorMap |-> colorMap, semanticTokenRules |-> << VariableRule("#111") >>]

StoredThemes ==
    { StoredData(ColorsOf("#111", Undefined, Undefined), << CommentRule("#222") >>),
      StoredData(ColorsOf("#111111", Undefined, Undefined), << CommentRule("#222") >>),
      StoredData(ColorsOf("#111", Undefined, Undefined), << RuleWithoutSettings >>) }

\* Color customizations (workbench.colorCustomizations).
ColorCustomizations ==
    { [plain |-> EmptyMap, scoped |-> << >>],
      [plain |-> ColorsOf("#222", DEFAULT_COLOR_CONFIG_VALUE, Undefined), scoped |-> << >>],
      [plain |-> ColorsOf(Undefined, "#111", NonString),
       scoped |-> << Scoped(<< <<"A", "b">>, <<"*", "b">> >>,
                            ColorsOf(DEFAULT_COLOR_CONFIG_VALUE, Undefined, "oops")),
                     Scoped(<< <<"Z", "z">> >>, ColorsOf("#222", "#222", "#222")) >>] }

\* Token color customizations (editor.tokenColorCustomizations).
TokenColorCustomizations ==
    { [plain |-> NoTokenColors, scoped |-> << >>],
      [plain |-> [NoTokenColors EXCEPT !.groups.numbers = "#111",
                                       !.semanticHighlighting = "true"],
       scoped |-> << >>],
      [plain |-> [NoTokenColors EXCEPT
                    !.textMateRules = [isArray |-> TRUE,
                                       rules |-> << CommentRule("#222"), RuleWithoutSettings >>]],
       scoped |-> << Scoped(<< <<"A", "*">> >>,
                            [NoTokenColors EXCEPT
                                !.textMateRules = [isArray |-> TRUE,
                                                   rules |-> << CommentRule("#111") >>],
                                !.semanticHighlighting = "false"]) >>] }

Section(key, settings) == [key |-> key, settings |-> settings]

\* Semantic token color customizations (editor.semanticTokenColorCustomizations).
SemanticTokenColorCustomizations ==
    { [given |-> FALSE, plain |-> NoSemanticTokenColors, scoped |-> << >>],
      [given |-> TRUE,
       plain |-> [enabled |-> "false",
                  rules |-> [isObject |-> TRUE,
                             section |-> << Section("variable", StringSetting("#111")),
                                            Section("!bad", StringSetting("#222")),
                                            Section("type", OtherSetting) >>]],
       scoped |-> << Scoped(<< <<"*">> >>,
                            [enabled |-> "true",
                             rules |-> [isObject |-> TRUE,
                                        section |-> << Section("type",
                                                        ObjectSetting(Undefined, "true")) >>]]) >>] }

\* The theme configurations given to withCustomizations.
ThemeConfigurations ==
    { [colorCustomizations |-> c, tokenColorCustomizations |-> k,
       semanticTokenColorCustomizations |-> m] :
        c \in { x \in ColorCustomizations : x.scoped # << >> },
        k \in { x \in TokenColorCustomizations : x.scoped # << >> },
        m \in { x \in SemanticTokenColorCustomizations : x.given } }

\* A tmTheme file as readExtensionResource and parsePList find it.
TmFile(readable, plistThrows, settingsIsArray, settings) ==
    [ext |-> ".tmTheme", readable |-> readable, plistThrows |-> plistThrows,
     settingsIsArray |-> settingsIsArray, settings |-> settings]

GoodTmFile == TmFile(TRUE, FALSE, TRUE, << GlobalRule("#111", "#222"), CommentRule("#222") >>)

UnreadableTmFile == TmFile(FALSE, FALSE, TRUE, << >>)

BrokenPlistTmFile == TmFile(TRUE, TRUE, TRUE, << >>)

NoSettingsTmFile == TmFile(TRUE, FALSE, FALSE, << >>)

\* The tmTheme files found at a .tmTheme location.
TmFiles == << GoodTmFile, UnreadableTmFile, BrokenPlistTmFile, NoSettingsTmFile >>

NoInclude == [given |-> FALSE, file |-> GoodTmFile]

Include(file) == [given |-> TRUE, file |-> file]

\* A JSON theme file in the new format, with every property well formed.
GoodJsonFile ==
    [ext |-> ".json", readable |-> TRUE, parseErrors |-> FALSE, nodeType |-> "object",
     include |-> NoInclude,
     settings |-> [isArray |-> FALSE, rules |-> << >>],
     semanticHighlighting |-> "true",
     colors |-> [kind |-> "object",
                 map |-> ColorsOf("#111", DEFAULT_COLOR_CONFIG_VALUE, NonString)],
     tokenColors |-> [kind |-> "array", rules |-> << CommentRule("#222"), RuleWithoutSettings >>,
                      file |-> GoodTmFile],
     semanticTokenColors |-> [kind |-> "object",
                              section |-> << Section("variable", StringSetting("#111")),
                                             Section("type", OtherSetting) >>]]

\* A JSON theme file with other properties only.
PlainJsonFile ==
    [GoodJsonFile EXCEPT
        !.semanticHighlighting = Undefined,
        !.colors = [kind |-> Undefined, map |-> EmptyMap],
        !.tokenColors = [kind |-> Undefined, rules |-> << >>, file |-> GoodTmFile],
        !.semanticTokenColors = [kind |-> Undefined, section |-> << >>]]

TokenColorsPath(tm) == [kind |-> "string", rules |-> << >>, file |-> tm]

\* The JSON files found at a .json location.  A kind of "falsy" is a value like
\* false or 0, a kind of "other" a value like 7 or true.
JsonFiles ==
    << GoodJsonFile,
       [PlainJsonFile EXCEPT !.readable = FALSE],
       [PlainJsonFile EXCEPT !.parseErrors = TRUE],
       [PlainJsonFile EXCEPT !.nodeType = "array"],
       [PlainJsonFile EXCEPT !.colors.kind = "other"],
       [PlainJsonFile EXCEPT !.colors.kind = "falsy"],
       [PlainJsonFile EXCEPT !.tokenColors.kind = "other"],
       [PlainJsonFile EXCEPT !.tokenColors.kind = "falsy"],
       [PlainJsonFile EXCEPT !.tokenColors = TokenColorsPath(GoodTmFile)],
       [PlainJsonFile EXCEPT !.tokenColors = TokenColorsPath(UnreadableTmFile)],
       [PlainJsonFile EXCEPT !.tokenColors = TokenColorsPath(BrokenPlistTmFile)],
       [PlainJsonFile EXCEPT !.tokenColors = TokenColorsPath(NoSettingsTmFile)],
       [PlainJsonFile EXCEPT
            !.semanticTokenColors =
                [kind |-> "object",
                 section |-> << Section("variable", StringSetting("#222")),
                                Section("!bad", StringSetting("#222")) >>]],
       [PlainJsonFile EXCEPT
            !.semanticTokenColors =
                [kind |-> "other", section |-> << >>]],
       [PlainJsonFile EXCEPT
            !.settings = [isArray |-> TRUE, rules |-> << GlobalRule("#222", Undefined) >>],
            !.colors.kind = "other", !.tokenColors.kind = "other"],
       [PlainJsonFile EXCEPT !.include = Include([PlainJsonFile EXCEPT !.parseErrors = TRUE])],
       [PlainJsonFile EXCEPT !.include = Include([PlainJsonFile EXCEPT !.readable = FALSE])],
       [PlainJsonFile EXCEPT !.include = Include(NoSettingsTmFile)],
       [GoodJsonFile EXCEPT
            !.include = Include([GoodJsonFile EXCEPT
                                    !.colors.map = ColorsOf("#222", "#222", "#222"),
                                    !.semanticHighlighting = "false"]),
            !.semanticHighlighting = Undefined] >>

\* The files that may be found at a location when it is read.
FilesAt(location) == IF extname(location) = ".json" THEN JsonFiles ELSE TmFiles

UseDefault == {"true", "false", Undefined}

(***************************************************************************)
(* The operations on ColorThemeData instances.  this and other are indexes *)
(* of themes.                                                               *)
(***************************************************************************)
NoThemeCall == [op |-> "none"]

\* A static constructor or with* method returned the new instance data.
Created(op, this, data) ==
    /\ Len(themes) < MaxThemes
    /\ themes' = Append(themes, data)
    /\ call' = [op |-> op, this |-> this, new |-> Len(themes) + 1]
    /\ UNCHANGED <<promises, widgetVars>>

createUnloadedTheme(id, colorMap) ==
    Created("createUnloadedTheme", 0, createUnloadedThemeData(id, colorMap))

createLoadedEmptyTheme(id, settingsId) ==
    Created("createLoadedEmptyTheme", 0, createLoadedEmptyThemeData(id, settingsId))

fromExtensionTheme(theme, colorThemeLocation) ==
    Created("fromExtensionTheme", 0, fromExtensionThemeData(theme, colorThemeLocation))

fromStorageData(data) == Created("fromStorageData", 0, fromStorageDataData(data))

\* A withCustomColors that assigns the new map to the receiver and returns it.
withCustomColors_InPlace(this, colors) ==
    /\ themes' = [themes EXCEPT
                    ![this].customColorMap = computeCustomColorMap(themes[this], colors)]
    /\ call' = [op |-> "withCustomColors", this |-> this, new |-> this]
    /\ UNCHANGED <<promises, widgetVars>>

withCustomColors(this, colors) ==
    Created("withCustomColors", this, withCustomColorsData(themes[this], colors))

withCustomTokenColors(this, customTokenColors) ==
    Created("withCustomTokenColors", this,
            withCustomTokenColorsData(themes[this], customTokenColors))

withCustomSemanticTokenColors(this, semanticTokenColors) ==
    Created("withCustomSemanticTokenColors", this,
            withCustomSemanticTokenColorsData(themes[this], semanticTokenColors))

withCustomizations(this, settings) ==
    Created("withCustomizations", this, withCustomizationsData(themes[this], settings))

\* The tokenColors getter: computes the rules on first use and keeps them.
getTokenColors(this) ==
    /\ themes' = [themes EXCEPT ![this].textMateThemingRules = tokenColors(themes[this])]
    /\ call' = [op |-> "tokenColors", this |-> this, rules |-> tokenColors(themes[this])]
    /\ UNCHANGED <<promises, widgetVars>>

callGetColor(this, colorId, useDefault) ==
    /\ call' = [op |-> "getColor", this |-> this, colorId |-> colorId,
                useDefault |-> useDefault,
                color |-> getColor(themes[this], colorId, useDefault)]
    /\ UNCHANGED <<themes, promises, widgetVars>>

callDefines(this, colorId) ==
    /\ call' = [op |-> "defines", this |-> this, colorId |-> colorId,
                defined |-> defines(themes[this], colorId)]
    /\ UNCHANGED <<themes, promises, widgetVars>>

\* ColorThemeData.equals(other): identity first, then the fields.
equals(this, other) ==
    IF this = other THEN "true" ELSE equalsFields(themes[this], themes[other])

callEquals(this, other) ==
    /\ call' = [op |-> "equals", this |-> this, other |-> other,
                equal |-> equals(this, other), reverse |-> equals(other, this)]
    /\ UNCHANGED <<themes, promises, widgetVars>>

\* The promise an ensureLoaded or reload call returned.
Promise(op, this, state, value, error, reads, result) ==
    [op |-> op, this |-> this, state |-> state, value |-> value, error |-> error,
     reads |-> reads, result |-> result]

Returned(op, this, promise) ==
    /\ Len(promises) < MaxPromises
    /\ promises' = Append(promises, promise)
    /\ call' = [op |-> op, this |-> this, promise |-> Len(promises) + 1]
    /\ UNCHANGED <<themes, widgetVars>>

\* _load up to its first await: a theme without location resolves to itself.
load(op, this) ==
    IF themes[this].location = Undefined
    THEN Returned(op, this, Promise(op, this, "resolved", this, "", 0, EmptyResult))
    ELSE Returned(op, this, Promise(op, this, "pending", 0, "", 0, EmptyResult))

ensureLoaded(this) ==
    IF ~themes[this].isLoaded THEN load("ensureLoaded", this)
    ELSE Returned("ensureLoaded", this,
                  Promise("ensureLoaded", this, "resolved", this, "", 0, EmptyResult))

reload(this) == load("reload", this)

\* _load after the await: _loadColorTheme has read file at the theme's location
\* and either rejected, and so does _load, or collected the result the new
\* instance is made of.
settleLoad(p, file) ==
    LET this == promises[p].this
        loaded == loadColorTheme(file, EmptyResult, 0)
    IN  /\ promises[p].state = "pending"
        /\ call' = [op |-> "settleLoad", this |-> this, promise |-> p, file |-> file]
        /\ IF loaded.ok
           THEN /\ Len(themes) < MaxThemes
                /\ themes' = Append(themes, loadData(themes[this], loaded.result))
                /\ promises' = [promises EXCEPT
                        ![p] = Promise(@.op, this, "resolved", Len(themes) + 1, "",
                                       loaded.reads, loaded.result)]
           ELSE /\ themes' = themes
                /\ promises' = [promises EXCEPT
                        ![p] = Promise(@.op, this, "rejected", 0, loaded.error,
                                       loaded.reads, EmptyResult)]
        /\ UNCHANGED widgetVars

InitTheme ==
    /\ themes = << >>
    /\ promises = << >>
    /\ call = NoThemeCall

NextCreate ==
    \/ \E id \in UnloadedThemeIds, colorMap \in UnloadedColorMaps :
            createUnloadedTheme(id, colorMap)
    \/ createLoadedEmptyTheme("vs-dark", <<"A", "b">>)
    \/ \E theme \in ExtensionThemes, location \in ThemeLocations :
            fromExtensionTheme(theme, location)
    \/ \E data \in StoredThemes : fromStorageData(data)

NextWith ==
    \E this \in DOMAIN themes :
        \/ \E colors \in ColorCustomizations : withCustomColors(this, colors)
        \/ \E custom \in TokenColorCustomizations : withCustomTokenColors(this, custom)
        \/ \E semantic \in SemanticTokenColorCustomizations :
                withCustomSemanticTokenColors(this, semantic)
        \/ \E settings \in ThemeConfigurations : withCustomizations(this, settings)

\* Creating and customizing themes, and reading their token colors.
NextTheme ==
    \/ NextCreate
    \/ NextWith
    \/ \E this \in DOMAIN themes : getTokenColors(this)

\* Creating themes, customizing their colors, and looking colors up.
NextGetColor ==
    \/ NextCreate
    \/ \E this \in DOMAIN themes :
        \/ \E colors \in ColorCustomizations : withCustomColors(this, colors)
        \/ \E colorId \in ColorIdentifier, useDefault \in UseDefault :
                callGetColor(this, colorId, useDefault)
        \/ \E colorId \in ColorIdentifier : callDefines(this, colorId)

\* Creating and customizing themes, and comparing them.
NextEquals ==
    \/ NextCreate
    \/ NextWith
    \/ \E this \in DOMAIN themes, other \in DOMAIN themes : callEquals(this, other)

\* Creating themes, customizing their colors, and loading them.
NextLoad ==
    \/ createUnloadedTheme("vs-dark", ColorsOf(Undefined, "#111", Undefined))
    \/ createLoadedEmptyTheme("vs-dark", <<"A", "b">>)
    \/ \E theme \in ExtensionThemes, location \in ThemeLocations :
            fromExtensionTheme(theme, location)
    \/ fromStorageData(StoredData(ColorsOf("#111", Undefined, Undefined),
                                  << CommentRule("#222") >>))
    \/ \E this \in DOMAIN themes :
        \/ \E colors \in {c \in ColorCustomizations : c.scoped # << >>} :
                withCustomColors(this, colors)
        \/ ensureLoaded(this)
        \/ reload(this)
    \/ \E p \in DOMAIN promises :
            \E i \in DOMAIN FilesAt(themes[promises[p].this].location) :
                settleLoad(p, FilesAt(themes[promises[p].this].location)[i])

\* The widget with the layout the constructor's default gives it.
DefaultLayout ==
    [kind |-> "mixed", showBase |-> FALSE, showBaseAtTop |-> TRUE, keys |-> DeclaredOrder]

IdleWidget ==
    /\ layoutMode = DefaultLayout
    /\ baseView = applyLayoutBaseView(DefaultLayout, FALSE)
    /\ grid = gridDescriptor(DefaultLayout)
    /\ last = NoCall
    /\ prev = NoCall
    /\ InitZones

\* No ColorThemeData instance yet, beside a widget with the default layout.
InitIdle == IdleWidget /\ InitTheme

SpecTheme == InitIdle /\ [][NextTheme]_vars

SpecGetColor == InitIdle /\ [][NextGetColor]_vars

SpecEquals == InitIdle /\ [][NextEquals]_vars

SpecLoad == InitIdle /\ [][NextLoad]_vars

Init == InitWidget /\ InitTheme

SpecWidget == Init /\ [][NextWidget]_vars

SpecViewZones == InitIdle /\ [][NextViewZones]_vars

SpecSetInput == InitIdle /\ [][NextSetInput]_vars

Next == NextWidget \/ NextViewZones \/ NextSetInput \/ NextTheme \/ NextGetColor \/ NextEquals \/ NextLoad

Spec == Init /\ [][Next]_vars

(***************************************************************************)
(* Claims about ColorThemeData.                                             *)
(***************************************************************************)
WithOps ==
    {"withCustomColors", "withCustomTokenColors", "withCustomSemanticTokenColors",
     "withCustomizations"}

\* The readonly fields of an instance (all but the tokenColors cache).
ReadonlyFields == DOMAIN EmptyInit

\* The fields a with* method customizes.
CustomizedFields(op) ==
    CASE op = "withCustomColors" -> {"customColorMap"}
      [] op = "withCustomTokenColors" ->
            {"customTokenColors", "customSemanticHighlightingDeprecated"}
      [] op = "withCustomSemanticTokenColors" ->
            {"customSemanticTokenRules", "customSemanticHighlighting"}
      [] OTHER ->
            {"customColorMap", "customTokenColors", "customSemanticHighlightingDeprecated",
             "customSemanticTokenRules", "customSemanticHighlighting"}

\* What a caller sees of an instance: getColor, defines, semanticHighlighting and
\* tokenColors.
Observed(t) ==
    [getColor |-> [c \in ColorIdentifier |-> [u \in UseDefault |-> getColor(t, c, u)]],
     defines |-> [c \in ColorIdentifier |-> defines(t, c)],
     semanticHighlighting |-> semanticHighlighting(t),
     tokenColors |-> tokenColors(t)]

C2_GetColorPrecedence ==
    call.op = "getColor" =>
        LET t == themes[call.this]
            custom == t.customColorMap[call.colorId]
            theme == t.colorMap[call.colorId]
        IN  IF custom \in Color THEN call.color = custom
            ELSE IF custom = Undefined /\ theme # Undefined THEN call.color = theme
            ELSE IF call.useDefault # "false" THEN call.color = getDefault(t, call.colorId)
            ELSE call.color = Undefined

\* C2 witness: a 'default' marker in the custom map masked the theme's color and the
\* registry default was returned.
C2_Witness ==
    /\ call.op = "getColor"
    /\ themes[call.this].customColorMap[call.colorId] = DEFAULT_COLOR_CONFIG_VALUE
    /\ themes[call.this].colorMap[call.colorId] # Undefined
    /\ call.color = getDefault(themes[call.this], call.colorId)
    /\ call.color # themes[call.this].colorMap[call.colorId]

C3_EnsureLoadedReturnsLoaded ==
    \A p \in DOMAIN promises :
        (promises[p].op = "ensureLoaded" /\ promises[p].state = "resolved") =>
            /\ themes[promises[p].value].isLoaded
            /\ themes[promises[p].this].isLoaded =>
                    (promises[p].value = promises[p].this /\ promises[p].reads = 0)

\* C4: the promise reload returns resolves, for every receiver, to an instance that
\* is not the receiver and has isLoaded = true; its colorMap, themeTokenColors,
\* semanticTokenRules and themeSemanticHighlighting are those read from the theme
\* file, and id, label, settingsId and the custom* fields are the receiver's.
C4_ReloadReturnsNewLoaded ==
    \A p \in DOMAIN promises :
        (promises[p].op = "reload" /\ promises[p].state = "resolved") =>
            LET this == themes[promises[p].this]
                new == themes[promises[p].value]
                result == promises[p].result
            IN  /\ promises[p].value # promises[p].this
                /\ new.isLoaded
                /\ promises[p].reads > 0
                /\ new.colorMap = result.colors
                /\ new.themeTokenColors = result.textMateRules
                /\ new.semanticTokenRules = result.semanticTokenRules
                /\ new.themeSemanticHighlighting = result.semanticHighlighting
                /\ \A f \in {"id", "label", "settingsId", "customColorMap", "customTokenColors",
                             "customSemanticTokenRules", "customSemanticHighlighting",
                             "customSemanticHighlightingDeprecated"} : new[f] = this[f]

RECURSIVE AnyKeyThrows(_)
\* Whether readSemanticTokenRule throws on a key of the section.
AnyKeyThrows(section) ==
    section # << >> /\ (selectorThrows(Head(section).key) \/ AnyKeyThrows(Tail(section)))

RECURSIVE MalformedAsClaimed(_)
\* The malformed files of the claim: a tmTheme file that cannot be read or whose
\* 'settings' is not an array; a JSON file with parse errors, with a value that is
\* not an object, with a 'colors' property that is not an object, with a
\* 'tokenColors' property that is neither an array nor a string, or with a semantic
\* token selector that does not parse; and a file that includes or names such a
\* file.
MalformedAsClaimed(file) ==
    IF file.ext # ".json"
    THEN ~file.readable \/ (~file.plistThrows /\ ~file.settingsIsArray)
    ELSE /\ file.readable
         /\ \/ file.parseErrors
            \/ /\ file.nodeType # "object"
            \/ /\ file.nodeType = "object"
               /\ \/ file.include.given /\ MalformedAsClaimed(file.include.file)
                  \/ file.colors.kind \in {"falsy", "other"}
                  \/ file.tokenColors.kind \in {"falsy", "other"}
                  \/ file.tokenColors.kind = "string"
                        /\ MalformedAsClaimed(file.tokenColors.file)
                  \/ file.semanticTokenColors.kind = "object"
                        /\ AnyKeyThrows(file.semanticTokenColors.section)

RECURSIVE Malformed(_)
\* The malformed files the load rejects: as above, but 'colors' and 'tokenColors'
\* count only when they are truthy, and the properties of a JSON file count only
\* when the file has no 'settings' array.
Malformed(file) ==
    IF file.ext # ".json"
    THEN ~file.readable \/ (~file.plistThrows /\ ~file.settingsIsArray)
    ELSE /\ file.readable
         /\ \/ file.parseErrors
            \/ /\ file.nodeType # "object"
            \/ /\ file.nodeType = "object"
               /\ \/ file.include.given /\ Malformed(file.include.file)
                  \/ /\ ~file.settings.isArray
                     /\ \/ file.colors.kind = "other"
                        \/ file.tokenColors.kind = "other"
                        \/ file.tokenColors.kind = "string"
                              /\ Malformed(file.tokenColors.file)
                        \/ file.semanticTokenColors.kind = "object"
                              /\ AnyKeyThrows(file.semanticTokenColors.section)

\* A load of promise p ended in this step.
Settled(p) == promises[p].state = "pending" /\ promises'[p].state # "pending"

\* C6 as stated: a load that read a malformed file (any 'colors' that is not an
\* object, any 'tokenColors' that is neither array nor string) rejects with an
\* Error, makes no instance and leaves the instances as they were.
C6_ParseErrorsRejected ==
    [][ \A p \in DOMAIN promises :
            (Settled(p) /\ MalformedAsClaimed(call'.file)) =>
                /\ promises'[p].state = "rejected"
                /\ promises'[p].error \in ErrorMessages
                /\ themes' = themes ]_vars

\* C6 amended: a load (ensureLoaded on an unloaded theme, or reload) that read a
\* JSON file with parse errors or with a value that is not an object, a JSON file
\* without a 'settings' array that has a truthy 'colors' that is not an object, a
\* truthy 'tokenColors' that is neither an array nor a string, or a semantic token
\* key on which readSemanticTokenRule throws, or a tmTheme file whose 'settings' is
\* not an array or that cannot be read, rejects with an Error; no instance is made
\* and every instance, the receiver included, keeps all its fields.
C6_TruthyParseErrorsRejected ==
    [][ \A p \in DOMAIN promises :
            (Settled(p) /\ Malformed(call'.file)) =>
                /\ promises'[p].state = "rejected"
                /\ promises'[p].error \in ErrorMessages
                /\ promises'[p].value = 0
                /\ themes' = themes ]_vars

\* C6 witness: a reload of a customized theme read a JSON file whose 'tokenColors'
\* names a tmTheme file without a 'settings' array, and rejected.
C6_Witness ==
    /\ call.op = "settleLoad"
    /\ promises[call.promise].op = "reload"
    /\ promises[call.promise].state = "rejected"
    /\ promises[call.promise].error = "error.plist.invalidformat"
    /\ call.file.ext = ".json"
    /\ Malformed(call.file)
    /\ ObjectKeys(themes[call.this].customColorMap) # {}

(***************************************************************************)
(* Claims about the widget's layout operations (checked under SpecWidget). *)
(***************************************************************************)

\* The calls of setupViewZones whose disposable is not disposed.
ActiveRegistrations == { i \in DOMAIN registrations : registrations[i].active }

\* C12: while the disposable of setupViewZones is active, the view zones in the
\* input1, input2, base and result editors are exactly those the most recent run of
\* the update created (a re-run removes the zones of the run before); after the
\* disposable is disposed no zone of setupViewZones is left in an editor, and no
\* run happens any more.
C12_ViewZonesOfLatestRun ==
    /\ [](\A i \in DOMAIN registrations :
            /\ ActiveRegistrations = {i} => editorZones = registrations[i].latest
            /\ ActiveRegistrations = {} => editorZones = NoZones)
    /\ [][\A i \in DOMAIN registrations :
            ~registrations[i].active => registrations'[i] = registrations[i]]_vars

\* Every setInput call has ended, and some call began while another was suspended.
SettledAfterOverlap ==
    /\ \A c \in DOMAIN editorCalls : editorCalls[c].state \in {"done", "rejected"}
    /\ \E c \in DOMAIN editorCalls : editorCalls[c].overlapped

\* C13: when setInput or clearInput ran while another setInput was suspended, then
\* once all calls have settled the widget's view model, inputModel, the result and
\* base URI context keys and the session disposables are those of the most recent
\* call, and no view model or listener made for an earlier call is left alive in
\* the session.
C13_NoStaleSession ==
    SettledAfterOverlap =>
        LET latest == Len(editorCalls)
            done == editorCalls[latest].op = "setInput" /\ editorCalls[latest].state = "done"
            owner == IF done THEN editorCalls[latest].input ELSE "undefined"
        IN  /\ \A i \in DOMAIN sessionDisposables : sessionDisposables[i].call = latest
            /\ \A i \in DOMAIN sessionDisposables :
                    sessionDisposables[i].kind = "viewModel" =>
                        sessionDisposables[i].ref = viewModel
            /\ \A v \in DOMAIN viewModels : v # viewModel => viewModels[v].disposed
            /\ IF done THEN viewModel # 0 /\ viewModels[viewModel].model = owner
                       ELSE viewModel = 0
            /\ inputModel = owner
            /\ ctxUri = [result |-> owner, base |-> owner]

\* The rows of views the grid shows.
GridRows == [i \in DOMAIN grid |-> grid[i].views]

\* How often a view appears in the grid.
Occurrences(view) ==
    Cardinality({ <<i, j>> \in (DOMAIN grid) \X (1..3) :
                    j \in DOMAIN grid[i].views /\ grid[i].views[j] = view })

\* The rows the layout asks for.
RowsOfLayout(l) ==
    IF l.kind = "mixed"
    THEN (IF l.showBase /\ l.showBaseAtTop THEN << <<"base">> >> ELSE << >>)
         \o << IF l.showBase /\ ~l.showBaseAtTop
               THEN <<"input1", "base", "input2">> ELSE <<"input1", "input2">>,
               <<"result">> >>
    ELSE (IF l.showBase THEN << <<"base">> >> ELSE << >>)
         \o << <<"input1", "result", "input2">> >>

\* C11: the grid holds input1, input2 and result exactly once each, and the base
\* exactly once when showBase and not at all otherwise; in 'mixed' kind the rows are
\* [base] (when showBase and showBaseAtTop), [input1, base (when showBase and not
\* showBaseAtTop), input2], [result]; in 'columns' kind they are [base] (when
\* showBase), [input1, result, input2].
C11_GridFollowsLayout ==
    /\ \A view \in {"input1", "input2", "result"} : Occurrences(view) = 1
    /\ Occurrences("base") = (IF layoutMode.showBase THEN 1 ELSE 0)
    /\ baseView = layoutMode.showBase
    /\ GridRows = RowsOfLayout(layoutMode)

\* C11 witness: a call applied a 'columns' layout that shows the base although
\* showBaseAtTop is false, after a layout without base.
C11_Witness ==
    /\ last.op # "none" /\ last.gridSet
    /\ ~last.before.showBase
    /\ layoutMode.kind = "columns" /\ layoutMode.showBase /\ ~layoutMode.showBaseAtTop
    /\ GridRows = << <<"base">>, <<"input1", "result", "input2">> >>

\* C7: setLayout(newLayout) is a no-op (no grid rebuild, no write of the layout
\* observable, no onDidChangeLayout, no onDidChangeSizeConstraints) when newLayout has
\* the same kind, showBase and showBaseAtTop as the current layout; otherwise the
\* layout is applied, getLayout() returns newLayout and onDidChangeLayout fires
\* exactly once with newLayout.
C7_SetLayoutNoOpOnSameValues ==
    last.op = "setLayout" =>
        IF sameLayoutByValue(last.before, last.arg)
        THEN /\ ~last.gridSet /\ ~last.wrote
             /\ last.layoutFired = << >> /\ last.sizeFired = 0
             /\ layoutMode = last.before
        ELSE /\ layoutMode = last.arg
             /\ last.layoutFired = << last.arg >>

\* C8: toggleBase negates showBase and leaves kind and showBaseAtTop unchanged; two
\* consecutive toggleBase calls restore the original layout and fire
\* onDidChangeLayout exactly twice.
C8_ToggleBaseInvolution ==
    /\ last.op = "toggleBase" =>
            /\ layoutMode.showBase = ~last.before.showBase
            /\ layoutMode.kind = last.before.kind
            /\ layoutMode.showBaseAtTop = last.before.showBaseAtTop
    /\ (last.op = "toggleBase" /\ prev.op = "toggleBase") =>
            /\ layoutMode = prev.before
            /\ Len(prev.layoutFired) + Len(last.layoutFired) = 2

\* C8 witness: two toggleBase calls have run one after the other.
C8_Witness == last.op = "toggleBase" /\ prev.op = "toggleBase" /\ layoutMode = prev.before

\* C9: after toggleShowBaseTop, showBaseAtTop is true, showBase is true exactly when
\* the base was not shown at the top before, and kind is unchanged; from a base shown
\* in the center the call moves the base to the top and does not hide it.
C9_ToggleShowBaseTop ==
    last.op = "toggleShowBaseTop" =>
        /\ layoutMode.showBaseAtTop
        /\ layoutMode.showBase = ~(last.before.showBase /\ last.before.showBaseAtTop)
        /\ layoutMode.kind = last.before.kind
        /\ (last.before.showBase /\ ~last.before.showBaseAtTop) =>
                (layoutMode.showBase /\ layoutMode.showBaseAtTop)

\* C9 witness: toggleShowBaseTop ran on a layout with the base shown in the center.
C9_Witness ==
    /\ last.op = "toggleShowBaseTop"
    /\ last.before.showBase /\ ~last.before.showBaseAtTop
    /\ layoutMode.showBase /\ layoutMode.showBaseAtTop

\* C10: after toggleShowBaseCenter, showBaseAtTop is false, showBase is true exactly
\* when the base was not shown in the center before, and kind is unchanged; two
\* consecutive calls restore the starting layout if and only if the starting layout
\* had showBaseAtTop = false.
C10_ToggleShowBaseCenter ==
    /\ last.op = "toggleShowBaseCenter" =>
            /\ ~layoutMode.showBaseAtTop
            /\ layoutMode.showBase = ~(last.before.showBase /\ ~last.before.showBaseAtTop)
            /\ layoutMode.kind = last.before.kind
    /\ (last.op = "toggleShowBaseCenter" /\ prev.op = "toggleShowBaseCenter") =>
            ((layoutMode = prev.before) <=> ~prev.before.showBaseAtTop)

\* C10 witness: two toggleShowBaseCenter calls from a layout with the base at the top
\* have run, and the starting layout is not restored.
C10_Witness ==
    /\ last.op = "toggleShowBaseCenter" /\ prev.op = "toggleShowBaseCenter"
    /\ prev.before.showBase /\ prev.before.showBaseAtTop
    /\ layoutMode # prev.before

====
